---------------------------- MODULE Spec2Model ----------------------------
(***************************************************************************)
(* caffeflow/tensorflow/transformer.py: the operator mapper                *)
(* (TensorFlowMapper, MaybeActivated, TensorFlowNode), the source emitter  *)
(* (TensorFlowEmitter) and the facade (TensorFlowTransformer).             *)
(*                                                                         *)
(* Three specifications share the variables:                               *)
(*   SpecMap   one node is handed to the map_* handler of its kind;        *)
(*   SpecEmit  one emitter object is asked to emit repeatedly;             *)
(*   Spec      one transformer object receives transform_data and          *)
(*             transform_source calls in any order.                        *)
(*                                                                         *)
(* Python values are tagged tuples, so that TensorFlowNode.format can      *)
(* dispatch on the type as isinstance does.  A float is an exact fraction  *)
(* <<"float", num, den>> in lowest terms; its rendering is the fraction    *)
(* literal (an injective stand-in for Python's repr of the float).         *)
(*                                                                         *)
(* The assert statements of the source are modelled as raising             *)
(* AssertionError (the interpreter's default mode).                        *)
(***************************************************************************)
EXTENDS Integers, Sequences, FiniteSets, TLC

VARIABLES
    node,          \* SpecMap: the graph node handed to the handler
    mapper,        \* SpecMap: the TensorFlowMapper object (use_padding_same)
    mapped,        \* SpecMap: outcome of the handler call (descriptor or error)
    emitter,       \* SpecEmit: the TensorFlowEmitter object (tab, prefix)
    emitArgs,      \* SpecEmit: the (name, chains) the emitter is called with
    emitted,       \* SpecEmit: per emit call, prefix at entry/exit and the text
    transformer,   \* Spec: the TensorFlowTransformer object
    loaded,        \* Spec: the graph as load() left it (never changes)
    hist           \* Spec: what the calls so far did and returned

vars == <<node, mapper, mapped, emitter, emitArgs, emitted, transformer, loaded, hist>>

-----------------------------------------------------------------------------
(* Bounds of the model *)

MaxPad == 1
MaxGroup == 2
MaxCode == 5
MaxLocalSize == 5
MaxAxis == 4
MaxAlpha == 2
MaxNodes == 2
MaxRuns == 2
MaxEmits == 2
MaxChains == 2

-----------------------------------------------------------------------------
(* Python values *)

IntV(n) == <<"int", n>>
BoolV(b) == <<"bool", b>>
StrV(s) == <<"str", s>>

RECURSIVE Gcd(_, _)
Gcd(a, b) == IF b = 0 THEN a ELSE Gcd(b, a % b)

\* a float, kept as the fraction num/den in lowest terms (den > 0, num >= 0)
FloatV(num, den) == <<"float", num \div Gcd(num, den), den \div Gcd(num, den)>>

\* x / float(n)
FloatDiv(x, n) == FloatV(x[2], x[3] * n)

\* dict.get(key, default)
Get(d, key, default) == IF key \in DOMAIN d THEN d[key] ELSE default

\* dict[key] = value on an insertion-ordered dict kept as a sequence of pairs
Put(kw, key, value) ==
    IF \E i \in 1..Len(kw) : kw[i][1] = key
    THEN [i \in 1..Len(kw) |-> IF kw[i][1] = key THEN <<key, value>> ELSE kw[i]]
    ELSE Append(kw, <<key, value>>)

\* dict.update(other)
Update(kw, other) ==
    LET upd[i \in 0..Len(other)] ==
            IF i = 0 THEN kw ELSE Put(upd[i - 1], other[i][1], other[i][2])
    IN  upd[Len(other)]

\* sep.join(strs)
Join(sep, strs) ==
    LET joined[i \in 0..Len(strs)] ==
            IF i = 0 THEN ""
            ELSE IF i = 1 THEN strs[1]
            ELSE joined[i - 1] \o sep \o strs[i]
    IN  joined[Len(strs)]

\* ' ' * n
Spaces(n) ==
    LET sp[i \in 0..n] == IF i = 0 THEN "" ELSE " " \o sp[i - 1]
    IN  IF n <= 0 THEN "" ELSE sp[n]

\* the one element of a singleton set: { e(x) : x \in {v} } computes v once
Only(S) == CHOOSE x \in S : TRUE

-----------------------------------------------------------------------------
(* class TensorFlowNode *)

\* what a descriptor keeps of its owning graph node: the name and the parents' names
NodeRef(name, parents) == [name |-> name, parents |-> parents]
NoNode == NodeRef("", <<>>)

\* TensorFlowNode.__init__(op, *args, **kwargs); self.node = None
TensorFlowNode(op, args, kwargs) ==
    [op |-> op, args |-> args, kwargs |-> kwargs, node |-> NoNode]

\* TensorFlowNode.format
Format(arg) ==
    CASE arg[1] = "str" -> "'" \o arg[2] \o "'"
      [] arg[1] = "int" -> ToString(arg[2])
      [] arg[1] = "bool" -> (IF arg[2] THEN "True" ELSE "False")
      [] arg[1] = "float" -> ToString(arg[2]) \o "/" \o ToString(arg[3])

\* TensorFlowNode.pair
Pair(key, value) == key \o "=" \o Format(value)

\* TensorFlowNode.emit
NodeEmit(tf) ==
    LET args == [i \in 1..Len(tf.args) |-> Format(tf.args[i])]
               \o [i \in 1..Len(tf.kwargs) |-> Pair(tf.kwargs[i][1], tf.kwargs[i][2])]
               \o <<Pair("name", StrV(tf.node.name))>>
    IN  tf.op \o "(" \o Join(", ", args) \o ")"

-----------------------------------------------------------------------------
(* Outcome of a call that returns a descriptor or raises *)

NoTF == TensorFlowNode("", <<>>, <<>>)
Returned(tf) == [raised |-> "none", tf |-> tf]
Raised(exc) == [raised |-> exc, tf |-> NoTF]
NotCalled == [raised |-> "notcalled", tf |-> NoTF]

-----------------------------------------------------------------------------
(* class MaybeActivated *)

\* mutant of InjectKwargs: the override carries the default instead of its negation
InjectKwargsSameValue(n, default) ==
    IF Get(n.metadata, "relu", FALSE) # default
    THEN <<<<"relu", BoolV(default)>>>>
    ELSE <<>>

\* MaybeActivated.__init__: the inject_kwargs dict
InjectKwargs(n, default) ==
    IF Get(n.metadata, "relu", FALSE) # default
    THEN <<<<"relu", BoolV(~default)>>>>
    ELSE <<>>

\* MaybeActivated(node, default)(op, *args, **kwargs)
MaybeActivated(n, default, op, args, kwargs) ==
    TensorFlowNode(op, args, Update(kwargs, InjectKwargs(n, default)))

-----------------------------------------------------------------------------
(* Graph nodes, as the mapper reads them *)

Kinds == {"Convolution", "ReLU", "Pooling", "InnerProduct", "Softmax", "LRN",
          "Concat", "Dropout", "BatchNorm", "Eltwise"}

\* node.metadata: 'relu' absent, or recorded by the activation fuser
Metadatas == {<<>>, [relu |-> TRUE], [relu |-> FALSE]}

\* a tensor is known by its axis order
Tensor(axes) == [axes |-> axes]
ConvWeights == Tensor(<<"c_o", "c_i", "h", "w">>)
FcWeights == Tensor(<<"c_o", "c_i">>)
Vector == Tensor(<<"c">>)

DefaultKernel ==
    [kernel_h |-> 3, kernel_w |-> 3, stride_h |-> 1, stride_w |-> 1,
     pad_h |-> 0, pad_w |-> 0]

DefaultParameters ==
    [group |-> 1, bias_term |-> TRUE, pool |-> 0, axis |-> 1, num_output |-> 10,
     local_size |-> 5, alpha |-> FloatV(1, 1), beta |-> FloatV(3, 4),
     dropout_ratio |-> FloatV(1, 2), operation |-> 1]

DefaultNode(kind) ==
    [kind |-> kind, name |-> "n1", parents |-> <<"data">>, metadata |-> <<>>,
     kernel_parameters |-> DefaultKernel, parameters |-> DefaultParameters,
     output_shape |-> <<1, 8, 4, 4>>, data |-> <<>>]

ConvNodes ==
    { [DefaultNode("Convolution") EXCEPT
         !.kernel_parameters.pad_h = ph, !.kernel_parameters.pad_w = pw,
         !.parameters.group = g, !.parameters.bias_term = b, !.metadata = md]
      : ph \in 0..MaxPad, pw \in 0..MaxPad, g \in 0..MaxGroup, b \in BOOLEAN,
        md \in Metadatas }

PoolNodes ==
    { [DefaultNode("Pooling") EXCEPT
         !.kernel_parameters.pad_h = ph, !.kernel_parameters.pad_w = pw,
         !.parameters.pool = c]
      : ph \in 0..MaxPad, pw \in 0..MaxPad, c \in 0..MaxCode }

FcNodes ==
    { [DefaultNode("InnerProduct") EXCEPT
         !.parameters.axis = a, !.parameters.bias_term = b, !.metadata = md]
      : a \in 0..2, b \in BOOLEAN, md \in Metadatas }

Alphas == { FloatV(a, d) : a \in 0..MaxAlpha, d \in {1, 10} }

LrnNodes ==
    { [DefaultNode("LRN") EXCEPT !.parameters.local_size = s, !.parameters.alpha = al]
      : s \in 0..MaxLocalSize, al \in Alphas }

ConcatNodes ==
    { [DefaultNode("Concat") EXCEPT !.parameters.axis = a] : a \in (0 - MaxAxis)..MaxAxis }

\* attached tensors of a node: a list of entries; role is "" until named
Entry(role, tensor) == [role |-> role, axes |-> tensor.axes]
Unnamed(tensors) == [i \in 1..Len(tensors) |-> Entry("", tensors[i])]

RECURSIVE Vectors(_)
Vectors(k) == IF k = 0 THEN <<>> ELSE Append(Vectors(k - 1), Vector)

BatchNormNodes ==
    { [DefaultNode("BatchNorm") EXCEPT !.data = Unnamed(Vectors(k)), !.metadata = md]
      : k \in 0..4, md \in Metadatas }

EltwiseNodes ==
    { [DefaultNode("Eltwise") EXCEPT !.parameters.operation = c] : c \in 0..MaxCode }

MapNodes ==
    ConvNodes \cup PoolNodes \cup FcNodes \cup LrnNodes \cup ConcatNodes
    \cup BatchNormNodes \cup EltwiseNodes
    \cup {DefaultNode("ReLU"), DefaultNode("Softmax"), DefaultNode("Dropout")}

-----------------------------------------------------------------------------
(* class TensorFlowMapper *)

\* get_kernel_params: the padding dict (kernel_params is node.kernel_parameters)
GetKernelParams(n, use_padding_same) ==
    LET kp == n.kernel_parameters
        p0 == <<>>
        p1 == IF kp.pad_h # 0 THEN Put(p0, "pad_h", IntV(kp.pad_h)) ELSE p0
        p2 == IF kp.pad_w # 0 THEN Put(p1, "pad_w", IntV(kp.pad_w)) ELSE p1
    IN  IF use_padding_same
        THEN Put(p0, "operator_padding", StrV("SAME"))
        ELSE p2

\* mutant of MapConvolution: the group keyword is added whatever the count
MapConvolutionAlwaysGroup(self, n) ==
    LET kp == n.kernel_parameters
        k0 == GetKernelParams(n, self.use_padding_same)
        c_o == n.output_shape[2]
        group == n.parameters.group
        k1 == Put(k0, "group", IntV(group))
        k2 == IF ~n.parameters.bias_term THEN Put(k1, "biased", BoolV(FALSE)) ELSE k1
    IN  Returned(MaybeActivated(n, TRUE, "conv",
                    <<IntV(kp.kernel_h), IntV(kp.kernel_w), IntV(c_o),
                      IntV(kp.stride_h), IntV(kp.stride_w)>>, k2))

MapConvolution(self, n) ==
    LET kp == n.kernel_parameters
        k0 == GetKernelParams(n, self.use_padding_same)
        c_o == n.output_shape[2]
        group == n.parameters.group
        k1 == IF group # 1 THEN Put(k0, "group", IntV(group)) ELSE k0
        k2 == IF ~n.parameters.bias_term THEN Put(k1, "biased", BoolV(FALSE)) ELSE k1
    IN  Returned(MaybeActivated(n, TRUE, "conv",
                    <<IntV(kp.kernel_h), IntV(kp.kernel_w), IntV(c_o),
                      IntV(kp.stride_h), IntV(kp.stride_w)>>, k2))

MapRelu(self, n) == Returned(TensorFlowNode("relu", <<>>, <<>>))

\* mutant of MapPooling: the padding follows the mapper's use_padding_same
MapPoolingSamePadding(self, n) ==
    LET pool_type == n.parameters.pool
        kp == n.kernel_parameters
        padding == GetKernelParams(n, self.use_padding_same)
        args == <<IntV(kp.kernel_h), IntV(kp.kernel_w), IntV(kp.stride_h), IntV(kp.stride_w)>>
    IN  IF pool_type = 0 THEN Returned(TensorFlowNode("max_pool", args, padding))
        ELSE IF pool_type = 1 THEN Returned(TensorFlowNode("avg_pool", args, padding))
        ELSE Raised("KaffeError")

\* mutant of MapEltwise: an unknown code falls back to 'add'
MapEltwiseFallback(self, n) ==
    LET op_code == n.parameters.operation
    IN  Returned(TensorFlowNode(<<"multiply", "add", "max">>[IF op_code \in 0..2 THEN op_code + 1 ELSE 2],
                                <<>>, <<>>))

MapPooling(self, n) ==
    LET pool_type == n.parameters.pool
        kp == n.kernel_parameters
        padding == GetKernelParams(n, FALSE)
        args == <<IntV(kp.kernel_h), IntV(kp.kernel_w), IntV(kp.stride_h), IntV(kp.stride_w)>>
    IN  IF pool_type = 0 THEN Returned(TensorFlowNode("max_pool", args, padding))
        ELSE IF pool_type = 1 THEN Returned(TensorFlowNode("avg_pool", args, padding))
        ELSE Raised("KaffeError")

MapInnerProduct(self, n) ==
    IF n.parameters.axis # 1 THEN Raised("AssertionError")
    ELSE IF ~n.parameters.bias_term THEN Raised("AssertionError")
    ELSE Returned(MaybeActivated(n, TRUE, "fc", <<IntV(n.parameters.num_output)>>, <<>>))

MapSoftmax(self, n) == Returned(TensorFlowNode("softmax", <<>>, <<>>))

\* mutant of MapLrn: the alpha coefficient is passed on without rescaling
MapLrnUnscaled(self, n) ==
    LET params == n.parameters IN
    IF params.local_size % 2 # 1 THEN Raised("AssertionError")
    ELSE Returned(TensorFlowNode("lrn",
            <<IntV(params.local_size \div 2), params.alpha, params.beta>>, <<>>))

MapLrn(self, n) ==
    LET params == n.parameters IN
    IF params.local_size % 2 # 1 THEN Raised("AssertionError")
    ELSE Returned(TensorFlowNode("lrn",
            <<IntV(params.local_size \div 2), FloatDiv(params.alpha, params.local_size),
              params.beta>>, <<>>))

\* the literal of map_concat, 0-based as in the source
ConcatAxisTable == <<2, 3, 1, 0>>

\* tuple[i]: Python indexing, negative indices counted from the end
TupleIndex(t, i) ==
    LET j == IF i < 0 THEN i + Len(t) ELSE i
    IN  IF j < 0 \/ j >= Len(t) THEN [ok |-> FALSE, v |-> 0]
        ELSE [ok |-> TRUE, v |-> t[j + 1]]

MapConcat(self, n) ==
    LET axis == TupleIndex(ConcatAxisTable, n.parameters.axis)
    IN  IF axis.ok THEN Returned(TensorFlowNode("concat", <<IntV(axis.v)>>, <<>>))
        ELSE Raised("IndexError")

MapDropout(self, n) ==
    Returned(TensorFlowNode("dropout", <<n.parameters.dropout_ratio>>, <<>>))

\* mutant of MapBatchNorm: scale_offset when more than mean and variance are attached
MapBatchNormMoreThanTwo(self, n) ==
    LET scale_offset == Len(n.data) > 2
        kwargs == IF scale_offset THEN <<>> ELSE <<<<"scale_offset", BoolV(FALSE)>>>>
    IN  Returned(MaybeActivated(n, FALSE, "batch_normalization", <<>>, kwargs))

MapBatchNorm(self, n) ==
    LET scale_offset == Len(n.data) = 4
        kwargs == IF scale_offset THEN <<>> ELSE <<<<"scale_offset", BoolV(FALSE)>>>>
    IN  Returned(MaybeActivated(n, FALSE, "batch_normalization", <<>>, kwargs))

\* the operations dict of map_eltwise
EltwiseOperations == [c \in 0..2 |-> <<"multiply", "add", "max">>[c + 1]]

MapEltwise(self, n) ==
    LET op_code == n.parameters.operation
    IN  IF op_code \in DOMAIN EltwiseOperations
        THEN Returned(TensorFlowNode(EltwiseOperations[op_code], <<>>, <<>>))
        ELSE Raised("KaffeError")

\* NodeMapper's dispatch on the node kind to the map_<kind> handler
MapHandler(self, n) ==
    CASE n.kind = "Convolution" -> MapConvolution(self, n)
      [] n.kind = "ReLU" -> MapRelu(self, n)
      [] n.kind = "Pooling" -> MapPooling(self, n)
      [] n.kind = "InnerProduct" -> MapInnerProduct(self, n)
      [] n.kind = "Softmax" -> MapSoftmax(self, n)
      [] n.kind = "LRN" -> MapLrn(self, n)
      [] n.kind = "Concat" -> MapConcat(self, n)
      [] n.kind = "Dropout" -> MapDropout(self, n)
      [] n.kind = "BatchNorm" -> MapBatchNorm(self, n)
      [] n.kind = "Eltwise" -> MapEltwise(self, n)

-----------------------------------------------------------------------------
(* class TensorFlowEmitter *)
(* tab and prefix are strings kept as sequences of characters, so that the *)
(* slice of outdent can be taken; Str turns them into text.                *)

Some(v) == [some |-> TRUE, v |-> v]
NoChars == [some |-> FALSE, v |-> <<>>]

Str(chars) == Join("", chars)

FourSpaces == <<" ", " ", " ", " ">>

\* TensorFlowEmitter.__init__(tab): tab or ' ' * 4
NewEmitter(tab) ==
    [tab |-> IF tab.some /\ tab.v # <<>> THEN tab.v ELSE FourSpaces, prefix |-> <<>>]

\* indent: self.prefix += self.tab
Indent(self) == [self EXCEPT !.prefix = self.prefix \o self.tab]

\* s[:-n] for n > 0
DropLast(s, n) == SubSeq(s, 1, IF Len(s) > n THEN Len(s) - n ELSE 0)

\* outdent: self.prefix = self.prefix[:-len(self.tab)]
Outdent(self) == [self EXCEPT !.prefix = DropLast(self.prefix, Len(self.tab))]

\* statement: a line is the prefix, the text, and the newline that ends it
Statement(self, s) == Str(self.prefix) \o s \o "\n"

EmitImports(self) == Statement(self, "from caffeflow.tensorflow import Network\n")

EmitClassDef(self, name) == Statement(self, "class " \o name \o "(Network):")

EmitSetupDef(self) == Statement(self, "def setup(self):")

\* emit_parents without the newline that ends the statement
EmitParentsLine(self, chain) ==
    LET s == "(self.feed("
        sep == ", \n" \o Str(self.prefix) \o Spaces(Len(s))
        parents == chain[1].node.parents
    IN  Str(self.prefix) \o s
        \o Join(sep, [i \in 1..Len(parents) |-> "'" \o parents[i] \o "'"]) \o ")"

\* emit_node without the newline that ends the statement
EmitNodeLine(self, tf) == Str(self.prefix) \o Spaces(5) \o "." \o NodeEmit(tf)

\* one block of emit: the statements of a chain; b[:-1] drops the newline of
\* the last statement, and ')' closes the feed expression
EmitBlock(self, chain) ==
    LET lines == <<EmitParentsLine(self, chain)>>
                 \o [i \in 1..Len(chain) |-> EmitNodeLine(self, chain[i])]
    IN  Join("\n", lines) \o ")"

\* emit(name, chains): the text returned and the emitter as the call leaves it
Emit(self, name, chains) ==
    LET s1 == EmitImports(self) \o EmitClassDef(self, name)
        e1 == Indent(self)
        s2 == s1 \o EmitSetupDef(e1)
        e2 == Indent(e1)
        blocks == [i \in 1..Len(chains) |-> EmitBlock(e2, chains[i])]
    IN  [text |-> s2 \o Join("\n\n", blocks), self |-> e2]

-----------------------------------------------------------------------------
(* Graphs, as load() leaves them: the input node "data" is implicit, the   *)
(* nodes are in topological order and named n1, n2, ...                    *)

NodeName(i) == "n" \o ToString(i)

\* the node variants a graph is built from
GraphNodeKinds ==
    { [DefaultNode("Convolution") EXCEPT !.metadata = [relu |-> TRUE],
         !.data = Unnamed(<<ConvWeights, Vector>>)],
      [DefaultNode("InnerProduct") EXCEPT !.data = Unnamed(<<FcWeights, Vector>>)],
      [DefaultNode("InnerProduct") EXCEPT !.parameters.axis = 2],
      [DefaultNode("InnerProduct") EXCEPT !.parameters.bias_term = FALSE],
      [DefaultNode("Pooling") EXCEPT !.parameters.pool = 2],
      [DefaultNode("LRN") EXCEPT !.parameters.local_size = 4],
      [DefaultNode("Eltwise") EXCEPT !.parameters.operation = 5],
      DefaultNode("ReLU") }
    \cup { [DefaultNode("BatchNorm") EXCEPT !.data = Unnamed(Vectors(k))] : k \in {0, 3, 4} }

\* parents of the i-th node: the previous node, or the input and the previous node
ParentChoices(i) ==
    IF i = 1 THEN { <<"data">> }
    ELSE { <<NodeName(i - 1)>>, <<"data", NodeName(i - 1)>> }

RECURSIVE NodeSeqs(_)
NodeSeqs(k) ==
    IF k = 0 THEN { <<>> }
    ELSE { Append(ns, [nd EXCEPT !.name = NodeName(k), !.parents = ps]) :
             ns \in NodeSeqs(k - 1), nd \in GraphNodeKinds, ps \in ParentChoices(k) }

Graphs == { [name |-> "Net", nodes |-> ns] : ns \in UNION { NodeSeqs(k) : k \in 0..MaxNodes } }

-----------------------------------------------------------------------------
(* NodeMapper.map: chains of nodes, each node mapped by its handler *)

RECURSIVE ChainsOf(_, _, _)
\* the chain decomposition: a node with exactly one parent joins the first
\* chain that ends in that parent; any other node starts a chain
ChainsOf(nodes, i, chains) ==
    IF i > Len(nodes) THEN chains
    ELSE LET n == nodes[i]
             fits == { c \in 1..Len(chains) :
                         Len(n.parents) = 1 /\ chains[c][Len(chains[c])].name = n.parents[1] }
             first == CHOOSE c \in fits : \A d \in fits : c <= d
         IN  IF fits = {} THEN ChainsOf(nodes, i + 1, Append(chains, <<n>>))
             ELSE ChainsOf(nodes, i + 1, [chains EXCEPT ![first] = Append(@, n)])

\* map_node: the handler's descriptor, with its owning node recorded
MapNode(self, n) ==
    LET r == MapHandler(self, n)
    IN  IF r.raised = "none"
        THEN Returned([r.tf EXCEPT !.node = NodeRef(n.name, n.parents)])
        ELSE r

\* the first exception the handlers raise over the nodes of the chains, or "none"
FirstRaised(self, nodes) ==
    LET bad == { i \in 1..Len(nodes) : MapNode(self, nodes[i]).raised # "none" }
    IN  IF bad = {} THEN "none"
        ELSE MapNode(self, nodes[CHOOSE i \in bad : \A j \in bad : i <= j]).raised

\* mapper.map(): the mapped chains, or the exception a handler raised
MapGraph(self, graph) ==
    Only({ IF exc # "none" THEN [raised |-> exc, chains |-> <<>>]
           ELSE [raised |-> "none",
                 chains |-> [c \in 1..Len(chains) |->
                               [i \in 1..Len(chains[c]) |-> MapNode(self, chains[c][i]).tf]]]
           : chains \in { ChainsOf(graph.nodes, 1, <<>>) },
             exc \in { FirstRaised(self, graph.nodes) } })

\* TensorFlowMapper.__init__
NewMapper(use_padding_same) == [use_padding_same |-> use_padding_same]

-----------------------------------------------------------------------------
(* The data passes of transform_data *)

\* the axis orders handed to DataReshaper, 0-based as in the source
ReshapeOrders ==
    [k \in {"Convolution", "InnerProduct"} |->
        IF k = "Convolution" THEN <<2, 3, 1, 0>> ELSE <<1, 0>>]

\* numpy transpose: axis i of the result is axis order[i] of the tensor
Transpose(e, order) ==
    IF Len(order) # Len(e.axes) THEN e
    ELSE [e EXCEPT !.axes = [i \in 1..Len(order) |-> e.axes[order[i] + 1]]]

\* DataReshaper: the first tensor of a node of a listed kind is transposed
DataReshaper(n) ==
    IF n.kind \in DOMAIN ReshapeOrders /\ n.data # <<>>
    THEN [n EXCEPT !.data[1] = Transpose(@, ReshapeOrders[n.kind])]
    ELSE n

\* BatchNormPreprocessor: four tensors stay four (scale-offset form), any
\* other non-empty list becomes mean and variance only
BatchNormPreprocessor(n) ==
    IF n.kind = "BatchNorm" /\ Len(n.data) # 4 /\ Len(n.data) >= 2
    THEN [n EXCEPT !.data = SubSeq(@, 1, 2)]
    ELSE n

\* ParameterNamer: the role schedule of each kind
Roles(n) ==
    CASE n.kind \in {"Convolution", "InnerProduct"} -> <<"weights", "biases">>
      [] n.kind = "BatchNorm" /\ Len(n.data) = 4 -> <<"scale", "offset", "mean", "variance">>
      [] n.kind = "BatchNorm" -> <<"mean", "variance">>
      [] OTHER -> <<>>

ParameterNamer(n) ==
    [n EXCEPT !.data = [i \in 1..Len(@) |->
        IF i <= Len(Roles(n)) THEN [@[i] EXCEPT !.role = Roles(n)[i]] ELSE @[i]]]

\* graph.transformed([DataReshaper, BatchNormPreprocessor, ParameterNamer])
DataPasses(graph) ==
    [graph EXCEPT !.nodes = [i \in 1..Len(@) |->
        ParameterNamer(BatchNormPreprocessor(DataReshaper(@[i])))]]

\* {node.name: node.data for node in graph.nodes if node.data}
ParamsOf(graph) ==
    LET with == { i \in 1..Len(graph.nodes) : graph.nodes[i].data # <<>> }
    IN  { <<graph.nodes[i].name, graph.nodes[i].data>> : i \in with }

-----------------------------------------------------------------------------
(* class TensorFlowTransformer *)

NoParams == [some |-> FALSE, v |-> {}]
NoSource == [some |-> FALSE, v |-> ""]

\* __init__: load() has built and fused the graph; params and source are None
NewTransformer(graph, use_padding_same) ==
    [graph |-> graph, params |-> NoParams, source |-> NoSource,
     use_padding_same |-> use_padding_same]

\* mutant of TransformData: "if not self.params" in place of "is None"
TransformDataTruthy(self) ==
    IF ~self.params.some \/ self.params.v = {}
    THEN Only({ [self |-> [self EXCEPT !.graph = g, !.params = Some(ParamsOf(g))],
                 ret |-> ParamsOf(g), passes |-> 1]
                : g \in { DataPasses(self.graph) } })
    ELSE [self |-> self, ret |-> self.params.v, passes |-> 0]

\* transform_data: the object as the call leaves it, the mapping returned,
\* and whether the data passes were applied
TransformData(self) ==
    IF ~self.params.some
    THEN Only({ [self |-> [self EXCEPT !.graph = g, !.params = Some(ParamsOf(g))],
                 ret |-> ParamsOf(g), passes |-> 1]
                : g \in { DataPasses(self.graph) } })
    ELSE [self |-> self, ret |-> self.params.v, passes |-> 0]

\* mutant of TransformSource: the text is built up in self.source as the
\* call goes, so a failing mapper leaves the header behind
TransformSourceEager(self) ==
    IF ~self.source.some
    THEN Only({ IF m.raised # "none"
                THEN [self |-> [self EXCEPT !.source = Some(EmitImports(NewEmitter(NoChars)))],
                      raised |-> m.raised, ret |-> "", mapper |-> 1, emitter |-> 0]
                ELSE Only({ [self |-> [self EXCEPT !.source = Some(text)], raised |-> "none",
                             ret |-> text, mapper |-> 1, emitter |-> 1]
                            : text \in { Emit(NewEmitter(NoChars), self.graph.name, m.chains).text } })
                : m \in { MapGraph(NewMapper(self.use_padding_same), self.graph) } })
    ELSE [self |-> self, raised |-> "none", ret |-> self.source.v, mapper |-> 0, emitter |-> 0]

\* transform_source: the object as the call leaves it, the exception raised
\* ("none" when it returns), the text returned, and whether the mapper and
\* the emitter ran
TransformSource(self) ==
    IF ~self.source.some
    THEN Only({ IF m.raised # "none"
                THEN [self |-> self, raised |-> m.raised, ret |-> "", mapper |-> 1, emitter |-> 0]
                ELSE Only({ [self |-> [self EXCEPT !.source = Some(text)], raised |-> "none",
                             ret |-> text, mapper |-> 1, emitter |-> 1]
                            : text \in { Emit(NewEmitter(NoChars), self.graph.name, m.chains).text } })
                : m \in { MapGraph(NewMapper(self.use_padding_same), self.graph) } })
    ELSE [self |-> self, raised |-> "none", ret |-> self.source.v, mapper |-> 0, emitter |-> 0]

-----------------------------------------------------------------------------
(* Values of the variables a specification does not use *)

IdleNode == DefaultNode("ReLU")
IdleMapper == NewMapper(FALSE)
IdleEmitter == NewEmitter(NoChars)
IdleEmitArgs == [name |-> "", chains |-> <<>>]
IdleGraph == [name |-> "", nodes |-> <<>>]
IdleTransformer == NewTransformer(IdleGraph, FALSE)
NoHist ==
    [dataCalls |-> 0, sourceCalls |-> 0, dataPasses |-> 0, mapperRuns |-> 0,
     emitterRuns |-> 0, firstData |-> NoParams, lastData |-> NoParams,
     firstSource |-> NoSource, lastSource |-> NoSource, lastRaised |-> "none",
     sourceAfterData |-> FALSE]

MapVars == <<node, mapper, mapped>>
EmitVars == <<emitter, emitArgs, emitted>>
FacadeVars == <<transformer, loaded, hist>>

-----------------------------------------------------------------------------
(* SpecMap: a node of any kind and parameters is handed to its handler *)

InitMap ==
    /\ node \in MapNodes
    /\ mapper \in { NewMapper(b) : b \in BOOLEAN }
    /\ mapped = NotCalled
    /\ emitter = IdleEmitter /\ emitArgs = IdleEmitArgs /\ emitted = <<>>
    /\ transformer = IdleTransformer /\ loaded = IdleGraph /\ hist = NoHist

map_convolution ==
    /\ node.kind = "Convolution"
    /\ mapped = NotCalled
    /\ mapped' = MapConvolution(mapper, node)
    /\ UNCHANGED <<node, mapper, EmitVars, FacadeVars>>

map_relu ==
    /\ node.kind = "ReLU"
    /\ mapped = NotCalled
    /\ mapped' = MapRelu(mapper, node)
    /\ UNCHANGED <<node, mapper, EmitVars, FacadeVars>>

map_pooling ==
    /\ node.kind = "Pooling"
    /\ mapped = NotCalled
    /\ mapped' = MapPooling(mapper, node)
    /\ UNCHANGED <<node, mapper, EmitVars, FacadeVars>>

map_inner_product ==
    /\ node.kind = "InnerProduct"
    /\ mapped = NotCalled
    /\ mapped' = MapInnerProduct(mapper, node)
    /\ UNCHANGED <<node, mapper, EmitVars, FacadeVars>>

map_softmax ==
    /\ node.kind = "Softmax"
    /\ mapped = NotCalled
    /\ mapped' = MapSoftmax(mapper, node)
    /\ UNCHANGED <<node, mapper, EmitVars, FacadeVars>>

map_lrn ==
    /\ node.kind = "LRN"
    /\ mapped = NotCalled
    /\ mapped' = MapLrn(mapper, node)
    /\ UNCHANGED <<node, mapper, EmitVars, FacadeVars>>

map_concat ==
    /\ node.kind = "Concat"
    /\ mapped = NotCalled
    /\ mapped' = MapConcat(mapper, node)
    /\ UNCHANGED <<node, mapper, EmitVars, FacadeVars>>

map_dropout ==
    /\ node.kind = "Dropout"
    /\ mapped = NotCalled
    /\ mapped' = MapDropout(mapper, node)
    /\ UNCHANGED <<node, mapper, EmitVars, FacadeVars>>

map_batch_norm ==
    /\ node.kind = "BatchNorm"
    /\ mapped = NotCalled
    /\ mapped' = MapBatchNorm(mapper, node)
    /\ UNCHANGED <<node, mapper, EmitVars, FacadeVars>>

map_eltwise ==
    /\ node.kind = "Eltwise"
    /\ mapped = NotCalled
    /\ mapped' = MapEltwise(mapper, node)
    /\ UNCHANGED <<node, mapper, EmitVars, FacadeVars>>

NextMap ==
    \/ map_convolution
    \/ map_relu
    \/ map_pooling
    \/ map_inner_product
    \/ map_softmax
    \/ map_lrn
    \/ map_concat
    \/ map_dropout
    \/ map_batch_norm
    \/ map_eltwise

SpecMap == InitMap /\ [][NextMap]_vars

-----------------------------------------------------------------------------
(* SpecEmit: one emitter is asked to emit the same program repeatedly *)

\* emitter arguments: tab omitted, empty, or two spaces
TabArgs == { NoChars, Some(<<>>), Some(<<" ", " ">>) }

\* chains as the mapper hands them over
SampleChains ==
    { MapGraph(NewMapper(FALSE), g).chains :
        g \in { h \in Graphs : MapGraph(NewMapper(FALSE), h).raised = "none" } }

InitEmit ==
    /\ emitter \in { NewEmitter(t) : t \in TabArgs }
    /\ emitArgs \in { [name |-> "Net", chains |-> c] :
                        c \in { d \in SampleChains : Len(d) <= MaxChains } }
    /\ emitted = <<>>
    /\ node = IdleNode /\ mapper = IdleMapper /\ mapped = NotCalled
    /\ transformer = IdleTransformer /\ loaded = IdleGraph /\ hist = NoHist

emit ==
    /\ Len(emitted) < MaxEmits
    /\ \E r \in { Emit(emitter, emitArgs.name, emitArgs.chains) } :
           /\ emitter' = r.self
           /\ emitted' = Append(emitted, [entry |-> emitter.prefix, exit |-> r.self.prefix,
                                          text |-> r.text])
    /\ UNCHANGED <<emitArgs, MapVars, FacadeVars>>

NextEmit == emit

SpecEmit == InitEmit /\ [][NextEmit]_vars

-----------------------------------------------------------------------------
(* Spec: one transformer receives transform_data and transform_source calls *)

Init ==
    /\ loaded \in Graphs
    /\ transformer \in { NewTransformer(loaded, b) : b \in BOOLEAN }
    /\ hist = NoHist
    /\ node = IdleNode /\ mapper = IdleMapper /\ mapped = NotCalled
    /\ emitter = IdleEmitter /\ emitArgs = IdleEmitArgs /\ emitted = <<>>

transform_data ==
    /\ hist.dataCalls < MaxRuns
    /\ \E r \in { TransformData(transformer) } :
           /\ transformer' = r.self
           /\ hist' = [hist EXCEPT
                 !.dataCalls = @ + 1,
                 !.dataPasses = @ + r.passes,
                 !.firstData = IF @.some THEN @ ELSE Some(r.ret),
                 !.lastData = Some(r.ret)]
    /\ UNCHANGED <<loaded, MapVars, EmitVars>>

transform_source ==
    /\ hist.sourceCalls < MaxRuns
    /\ \E r \in { TransformSource(transformer) } :
           /\ transformer' = r.self
           /\ hist' = [hist EXCEPT
                 !.sourceCalls = @ + 1,
                 !.mapperRuns = @ + r.mapper,
                 !.emitterRuns = @ + r.emitter,
                 !.firstSource = IF @.some \/ r.raised # "none" THEN @ ELSE Some(r.ret),
                 !.lastSource = IF r.raised # "none" THEN NoSource ELSE Some(r.ret),
                 !.lastRaised = r.raised,
                 !.sourceAfterData = IF r.mapper = 1 /\ r.raised = "none"
                                     THEN transformer.params.some ELSE @]
    /\ UNCHANGED <<loaded, MapVars, EmitVars>>

Next ==
    \/ transform_data
    \/ transform_source

Spec == Init /\ [][Next]_vars

-----------------------------------------------------------------------------
(* Claims about the mapper, checked under SpecMap *)

\* reading a descriptor's keyword list
HasKey(kw, key) == \E i \in 1..Len(kw) : kw[i][1] = key
ValueOf(kw, key) == kw[CHOOSE i \in 1..Len(kw) : kw[i][1] = key][2]

kwargsOf == mapped.tf.kwargs
ReturnedFor(kind) == node.kind = kind /\ mapped.raised = "none"
ReluFlag == IF "relu" \in DOMAIN node.metadata THEN node.metadata["relu"] ELSE FALSE

\* C1: a descriptor built through MaybeActivated(node, default=d) carries the
\* relu keyword exactly when the node's relu flag (false when absent) differs
\* from d, and then with the value (not d); d is true for convolution and
\* fully-connected, false for normalization.
C1_ActivationInjection ==
    \A d \in BOOLEAN :
        ( /\ mapped.raised = "none"
          /\ \/ d /\ node.kind \in {"Convolution", "InnerProduct"}
             \/ ~d /\ node.kind = "BatchNorm" )
        => /\ HasKey(kwargsOf, "relu") <=> (ReluFlag # d)
           /\ HasKey(kwargsOf, "relu") => ValueOf(kwargsOf, "relu") = BoolV(~d)

\* C1 witness: a normalization node with a fused activation was mapped to relu=True
C1_Witness ==
    /\ ReturnedFor("BatchNorm")
    /\ ReluFlag
    /\ HasKey(kwargsOf, "relu") /\ ValueOf(kwargsOf, "relu") = BoolV(TRUE)

\* C2: map_pooling returns a descriptor only for pool-type 0 (max) or 1
\* (average), map_eltwise only for op-code 0, 1, 2 (multiply, add, max); any
\* other code raises the unsupported-operator error and yields no descriptor.
C2_ClosedOperatorSets ==
    /\ (node.kind = "Pooling" /\ mapped # NotCalled) =>
          LET c == node.parameters.pool IN
          /\ c = 0 => mapped.raised = "none" /\ mapped.tf.op = "max_pool"
          /\ c = 1 => mapped.raised = "none" /\ mapped.tf.op = "avg_pool"
          /\ c \notin {0, 1} => mapped = Raised("KaffeError")
    /\ (node.kind = "Eltwise" /\ mapped # NotCalled) =>
          LET c == node.parameters.operation IN
          /\ c = 0 => mapped.raised = "none" /\ mapped.tf.op = "multiply"
          /\ c = 1 => mapped.raised = "none" /\ mapped.tf.op = "add"
          /\ c = 2 => mapped.raised = "none" /\ mapped.tf.op = "max"
          /\ c \notin {0, 1, 2} => mapped = Raised("KaffeError")

\* C2 witness: elementwise op-code 5 was refused
C2_Witness ==
    /\ node.kind = "Eltwise" /\ node.parameters.operation = 5
    /\ mapped.raised = "KaffeError"

\* C3: map_concat emits axis 3 for source axis 1 and axis 0 for source axis 0,
\* the emitted axis being the entry of the table (2,3,1,0) at the source axis.
C3_ConcatAxis ==
    (ReturnedFor("Concat") /\ node.parameters.axis \in 0..3) =>
        /\ mapped.tf.args = <<IntV(<<2, 3, 1, 0>>[node.parameters.axis + 1])>>
        /\ node.parameters.axis = 1 => mapped.tf.args = <<IntV(3)>>
        /\ node.parameters.axis = 0 => mapped.tf.args = <<IntV(0)>>

\* C4: map_convolution adds the group keyword exactly when the group count is
\* greater than 1 (with the count as value) and biased=False exactly when the
\* node has no bias term.
C4_GroupAndBias ==
    ReturnedFor("Convolution") =>
        /\ HasKey(kwargsOf, "group") <=> node.parameters.group > 1
        /\ HasKey(kwargsOf, "group") => ValueOf(kwargsOf, "group") = IntV(node.parameters.group)
        /\ HasKey(kwargsOf, "biased") <=> ~node.parameters.bias_term
        /\ HasKey(kwargsOf, "biased") => ValueOf(kwargsOf, "biased") = BoolV(FALSE)

\* C4 as amended: the group keyword is added exactly when the group count
\* differs from 1 (so also for a count of 0), with the count as value, and
\* biased=False exactly when the node has no bias term.
C4_GroupAndBiasAmended ==
    ReturnedFor("Convolution") =>
        /\ HasKey(kwargsOf, "group") <=> node.parameters.group # 1
        /\ HasKey(kwargsOf, "group") => ValueOf(kwargsOf, "group") = IntV(node.parameters.group)
        /\ HasKey(kwargsOf, "biased") <=> ~node.parameters.bias_term
        /\ HasKey(kwargsOf, "biased") => ValueOf(kwargsOf, "biased") = BoolV(FALSE)

\* C4 witness: group 2 without bias gave group=2 and biased=False
C4_Witness ==
    /\ ReturnedFor("Convolution")
    /\ node.parameters.group = 2 /\ ~node.parameters.bias_term
    /\ HasKey(kwargsOf, "group") /\ ValueOf(kwargsOf, "group") = IntV(2)
    /\ HasKey(kwargsOf, "biased")

\* C5: with use_padding_same a convolution descriptor carries
\* operator_padding='SAME' and never pad_h or pad_w; without it, never the
\* flag, and pad_h (pad_w) exactly when that pad is non-zero.  A pooling
\* descriptor never carries the flag and carries a pad keyword only when the
\* pad is non-zero.
C5_PaddingExclusive ==
    /\ ReturnedFor("Convolution") =>
          IF mapper.use_padding_same
          THEN /\ HasKey(kwargsOf, "operator_padding")
               /\ ValueOf(kwargsOf, "operator_padding") = StrV("SAME")
               /\ ~HasKey(kwargsOf, "pad_h") /\ ~HasKey(kwargsOf, "pad_w")
          ELSE /\ ~HasKey(kwargsOf, "operator_padding")
               /\ HasKey(kwargsOf, "pad_h") <=> node.kernel_parameters.pad_h # 0
               /\ HasKey(kwargsOf, "pad_w") <=> node.kernel_parameters.pad_w # 0
    /\ ReturnedFor("Pooling") =>
          /\ ~HasKey(kwargsOf, "operator_padding")
          /\ HasKey(kwargsOf, "pad_h") => node.kernel_parameters.pad_h # 0
          /\ HasKey(kwargsOf, "pad_w") => node.kernel_parameters.pad_w # 0

\* C5 witness: a padded convolution was mapped under use_padding_same
C5_Witness ==
    /\ ReturnedFor("Convolution") /\ mapper.use_padding_same
    /\ node.kernel_parameters.pad_h # 0
    /\ HasKey(kwargsOf, "operator_padding")

\* C6: for an odd window size map_lrn emits radius (size - 1) / 2 first and
\* alpha / size second; for an even window size it fails with no descriptor.
C6_LrnRescale ==
    (node.kind = "LRN" /\ mapped # NotCalled) =>
        LET size == node.parameters.local_size
            alpha == node.parameters.alpha
        IN  IF size % 2 = 1
            THEN /\ mapped.raised = "none"
                 /\ mapped.tf.args[1] = IntV((size - 1) \div 2)
                 /\ mapped.tf.args[2][1] = "float"
                 /\ mapped.tf.args[2][2] * alpha[3] * size = alpha[2] * mapped.tf.args[2][3]
            ELSE mapped.raised # "none" /\ mapped.tf = NoTF

\* C6 witness: window 5 and alpha 1.0 gave radius 2 and alpha 1/5
C6_Witness ==
    /\ ReturnedFor("LRN")
    /\ node.parameters.local_size = 5 /\ node.parameters.alpha = FloatV(1, 1)
    /\ mapped.tf.args[1] = IntV(2) /\ mapped.tf.args[2] = <<"float", 1, 5>>

-----------------------------------------------------------------------------
(* Claims about the facade, checked under Spec *)

\* the configurations the mapper refuses, read off the node parameters
Refused(n) ==
    \/ n.kind = "Pooling" /\ n.parameters.pool \notin {0, 1}
    \/ n.kind = "Eltwise" /\ n.parameters.operation \notin {0, 1, 2}
    \/ n.kind = "InnerProduct" /\ (n.parameters.axis # 1 \/ ~n.parameters.bias_term)
    \/ n.kind = "LRN" /\ n.parameters.local_size % 2 = 0

HasRefused(graph) == \E i \in 1..Len(graph.nodes) : Refused(graph.nodes[i])

LaterCallsReturnFirst ==
    /\ hist.firstData.some => hist.lastData = hist.firstData
    /\ (hist.firstSource.some /\ hist.lastRaised = "none") => hist.lastSource = hist.firstSource

\* C7: over any sequence of calls the data passes are applied at most once and
\* the mapper and the emitter run at most once; every later transform_data
\* returns the first mapping (also an empty one) and every later
\* transform_source the first text.
C7_MemoizedOnce ==
    /\ hist.dataPasses <= 1
    /\ hist.mapperRuns <= 1
    /\ hist.emitterRuns <= 1
    /\ LaterCallsReturnFirst

\* C7 as amended: the data passes are applied at most once, the emitter runs
\* at most once and the mapper runs at most once to completion: once a text is
\* memoized the mapper has run exactly once, and it runs again only after a
\* run that raised.  Later calls return the first mapping and the first text.
C7_MemoizedOnceAmended ==
    /\ hist.dataPasses <= 1
    /\ hist.emitterRuns <= 1
    /\ transformer.source.some => hist.mapperRuns = 1
    /\ hist.mapperRuns > 1 => hist.emitterRuns = 0 /\ hist.lastRaised # "none"
    /\ hist.dataCalls > 0 => hist.dataPasses = 1
    /\ (hist.sourceCalls > 0 /\ hist.lastRaised = "none") => hist.emitterRuns = 1
    /\ LaterCallsReturnFirst

\* C7 witness: both calls were repeated, the first mapping was empty
C7_Witness ==
    /\ hist.dataCalls >= 2 /\ hist.sourceCalls >= 2
    /\ hist.firstData = Some({}) /\ hist.lastData = Some({})
    /\ hist.firstSource.some /\ hist.lastSource = hist.firstSource

\* C8: if mapping any node fails, transform_source raises, returns no text and
\* leaves the memoized source unset, so no later call returns a partial text.
C8_NoPartialSource ==
    (hist.sourceCalls > 0 /\ HasRefused(loaded)) =>
        /\ hist.lastRaised # "none"
        /\ ~hist.lastSource.some /\ ~hist.firstSource.some
        /\ ~transformer.source.some

\* C8 witness: transform_source was called twice on a graph whose second node
\* is refused, and raised
C8_Witness ==
    /\ hist.sourceCalls >= 2
    /\ Len(loaded.nodes) = 2 /\ ~Refused(loaded.nodes[1]) /\ Refused(loaded.nodes[2])
    /\ hist.lastRaised = "AssertionError"

\* the text of the graph as load() left it
SourceOfLoaded ==
    Emit(NewEmitter(NoChars), loaded.name,
         MapGraph(NewMapper(transformer.use_padding_same), loaded).chains).text

-----------------------------------------------------------------------------
(* Claim about the emitter, checked under SpecEmit *)

\* C10: every indent of emit is matched by an outdent, so the prefix when emit
\* returns equals its value at entry, and a second emit with the same name and
\* chains yields the same text as the first.
C10_EmitRestoresPrefix ==
    /\ \A i \in 1..Len(emitted) : emitted[i].exit = emitted[i].entry
    /\ \A i \in 1..Len(emitted) : emitted[i].text = emitted[1].text

=============================================================================
